---- MODULE Spec2Model ----
(***************************************************************************)
(* EVFleetOptimizer (ev_fleet_optimizer.py): the DAM-only baseline         *)
(* strategy and the live fleet-level DAM/IDM optimized strategy.           *)
(*                                                                         *)
(* Time is counted in 15-minute ticks from simulation_start (tick 0); an   *)
(* hour is 4 ticks.  Python floats are modelled as exact rationals <<n,d>> *)
(* (d > 0, lowest terms); prices (EUR/MWh) are integers.                   *)
(***************************************************************************)
EXTENDS Integers, Sequences, FiniteSets, TLC

VARIABLES
    params,             \* the constructor's arguments, kept as attributes
    start_quarter,      \* simulation_start.minute // 15 (simulation_start is tick 0)
    fleet_call,         \* initialize_fleet: its arguments and loop variables
    vehicles,           \* self.vehicles: the fleet, sorted by arrival_time
    dam_prices,         \* self.dam_prices: data frame of [Time, cena]
    idm_15_prices,      \* self.idm_15_prices
    idm_60_prices,      \* self.idm_60_prices
    DAM_ALLOCATION,     \* module-level DAM_ALLOCATION handed to optimized_strategy
    baseline_results,   \* self.baseline_results
    optimized_results,  \* self.optimized_results
    pc,                 \* position of the running strategy call
    baseline,           \* baseline_strategy: local table `baseline`
    optimized,          \* optimized_strategy: local table `optimized`
    eligible_vehicles,  \* local list of eligible vehicles (indices into vehicles)
    time_slot_needs,    \* optimized_strategy: local dict time -> needs
    idx,                \* loop position (vehicle in baseline, slot in phase 2)
    calls,              \* log of the strategy calls made so far
    summary             \* what summarize_results printed, None before it is called

vars == <<params, start_quarter, fleet_call, vehicles, dam_prices, idm_15_prices, idm_60_prices, DAM_ALLOCATION,
          baseline_results, optimized_results, pc, baseline, optimized,
          eligible_vehicles, time_slot_needs, idx, calls, summary>>

-----------------------------------------------------------------------------
(* Bounds of the model *)

NumVehicles == 2        \* vehicles in the fleet
HorizonHours == 2       \* simulation_end - simulation_start, in hours
MaxCalls == 2           \* strategy calls made on one optimizer
FleetSize == 4          \* fleet_size of the optimizer whose initialize_fleet is followed
MaxSimulationDays == 2  \* simulation_days handed to initialize_fleet

(* Program constants *)

TicksPerHour == 4       \* 15-minute slots per hour (900 s slots, freq='15T')
IdmStepKw == 100        \* IDM step: int(idm_target_kw / 100) * 100
DefaultDamPrice == 50   \* fallback DAM price 50.0
KwPerMw == 1000         \* kW * EUR/MWh / 1000

-----------------------------------------------------------------------------
(* Exact arithmetic standing for the float arithmetic of the program *)

Abs(n) == IF n < 0 THEN -n ELSE n

RECURSIVE GCD(_, _)
GCD(a, b) == IF b = 0 THEN a ELSE GCD(b, a % b)

Rat(n, d) ==
    LET s == IF d < 0 THEN -1 ELSE 1
        g == GCD(Abs(n), Abs(d))
    IN  IF n = 0 THEN <<0, 1>> ELSE <<(s * n) \div g, (s * d) \div g>>

R(n) == <<n, 1>>
Zero == R(0)

RAdd(x, y) == Rat(x[1] * y[2] + y[1] * x[2], x[2] * y[2])
RSub(x, y) == Rat(x[1] * y[2] - y[1] * x[2], x[2] * y[2])
RMul(x, y) == Rat(x[1] * y[1], x[2] * y[2])
RDiv(x, y) == Rat(x[1] * y[2], x[2] * y[1])
RLt(x, y) == x[1] * y[2] < y[1] * x[2]
RLe(x, y) == x[1] * y[2] <= y[1] * x[2]
RMin(x, y) == IF RLe(x, y) THEN x ELSE y

\* int(x): truncation toward zero
RInt(x) == IF x[1] >= 0 THEN x[1] \div x[2] ELSE -((-x[1]) \div x[2])

Quarter == Rat(1, 4)    \* 0.25 h

RECURSIVE RSum(_)
RSum(s) == IF s = <<>> THEN Zero ELSE RAdd(Head(s), RSum(Tail(s)))

-----------------------------------------------------------------------------
(* Horizon: simulation_start = tick 0, simulation_end = HorizonHours hours *)

simulation_start == 0
simulation_end == HorizonHours * TicksPerHour


-----------------------------------------------------------------------------
(* Inputs: fleet parameters, vehicle stays and market data *)

EvCapacities == {125}                   \* ev_capacity (kWh)
MaxChargeKws == {60, 200}               \* max_charge_kw
MinChargeKws == {Rat(3, 2), R(100)}             \* min_charge_kw
MinSocTargets == {Rat(9, 10)}           \* min_soc_target
ReturnSocs == {Rat(1, 10), Rat(2, 5)}   \* return_soc samples
ArrivalTimes == {-4, 2, 12}             \* arrival_time (ticks)
DepartureTimes == {4, 12, 16}           \* departure_time (ticks)
DamAllocations == {Zero, Rat(1, 20), Rat(1, 2), R(1)}
MarketData == {"rising", "falling", "short", "empty"}

\* The times of a set in ascending order (rows of a data frame sorted by Time)
RECURSIVE SortedTimes(_)
SortedTimes(times) ==
    IF times = {} THEN <<>>
    ELSE LET t == CHOOSE x \in times : \A y \in times : x <= y
         IN  <<t>> \o SortedTimes(times \ {t})

\* The loaders stamp the rows of a sheet with consecutive times from the start
\* of the year, so a data set has no holes: it can only end early.  Records
\* sit on the clock hours, which are the ticks h * TicksPerHour - quarter when
\* simulation_start is `quarter` quarters past the hour.  "rising" and
\* "falling" cover the horizon; "short" ends one hour earlier; "empty" is a
\* sheet with its header row and no record.
DataHours(kind, quarter) ==
    LET covering == {h \in -1 .. HorizonHours : h * TicksPerHour - quarter < simulation_end}
        last == CHOOSE h \in covering : \A g \in covering : g <= h
    IN  IF kind = "empty" THEN {}
        ELSE IF kind = "short" THEN covering \ {last} ELSE covering

\* DAM data: one record per hour
DamFrame(kind, quarter) ==
    LET ts == SortedTimes({h * TicksPerHour - quarter : h \in DataHours(kind, quarter)})
    IN  [i \in 1 .. Len(ts) |->
            [Time |-> ts[i],
             cena |-> IF kind = "falling"
                      THEN 80 - 10 * ((ts[i] + quarter) \div TicksPerHour)
                      ELSE 40 + 10 * ((ts[i] + quarter) \div TicksPerHour)]]

\* IDM 15-minute data: one record per tick of the hours covered
Idm15Frame(kind, quarter) ==
    LET ts == SortedTimes({h * TicksPerHour - quarter + q :
                              h \in DataHours(kind, quarter), q \in 0 .. (TicksPerHour - 1)})
    IN  [i \in 1 .. Len(ts) |-> [Time |-> ts[i], cena |-> 40 + 10 * (ts[i] % 3)]]

\* IDM 60-minute data: one record per hour
Idm60Frame(kind, quarter) ==
    LET ts == SortedTimes({h * TicksPerHour - quarter : h \in DataHours(kind, quarter)})
    IN  [i \in 1 .. Len(ts) |-> [Time |-> ts[i], cena |-> 50]]

\* The market data sets a run is checked with: every kind of data for a
\* horizon that starts on the hour, and full data for one that starts at :30
MarketSetups ==
    [kind : MarketData, quarter : {0}] \cup {[kind |-> "rising", quarter |-> 2]}

\* One vehicle dictionary as initialize_fleet builds it
Vehicle(i, arr, dep, soc, target, cap, minkw, maxkw) ==
    [id |-> i,
     arrival_time |-> arr,
     departure_time |-> dep,
     return_soc |-> soc,
     target_soc |-> target,
     current_soc |-> soc,
     capacity_kwh |-> cap,
     min_charge_kw |-> minkw,
     max_charge_kw |-> maxkw,
     charging_schedule |-> <<>>]

\* energy_needed_kwh = (target_soc - return_soc) * capacity_kwh
EnergyNeeded(v) == RMul(RSub(v.target_soc, v.return_soc), R(v.capacity_kwh))

\* Rank of a stay among the stays with the same arrival_time
StayRank(p) == p.dep * 100 + p.soc[1] * 10 + p.soc[2]

\* Fleets initialize_fleet can produce: every vehicle shares the optimizer's
\* parameters, needs energy, stays a positive time; sorted by arrival_time.
\* Vehicles that arrive together are listed in one order only: the strategies
\* read the list order for nothing but the order of their sums.  The stay
\* from tick 12 to tick 16 is that of a vehicle generated for a later day
\* than the horizon the strategies are called with.
Fleets ==
    { f \in [1 .. NumVehicles -> [arr : ArrivalTimes, dep : DepartureTimes, soc : ReturnSocs]] :
        /\ \A i \in 1 .. NumVehicles : f[i].arr < f[i].dep
        /\ \A i \in 1 .. NumVehicles : (f[i].arr = 12) = (f[i].dep = 16)
        /\ \A i \in 1 .. (NumVehicles - 1) :
              \/ f[i].arr < f[i + 1].arr
              \/ f[i].arr = f[i + 1].arr /\ StayRank(f[i]) <= StayRank(f[i + 1]) }

None == <<>>

Init ==
    /\ \E f \in Fleets, cap \in EvCapacities, maxkw \in MaxChargeKws,
          minkw \in MinChargeKws, target \in MinSocTargets :
          /\ \A i \in 1 .. NumVehicles : RLt(f[i].soc, target)
          /\ params = [fleet_size |-> NumVehicles, ev_capacity |-> cap,
                       min_charge_kw |-> minkw, max_charge_kw |-> R(maxkw),
                       min_soc_target |-> target]
          /\ vehicles = [i \in 1 .. NumVehicles |->
                           Vehicle(i, f[i].arr, f[i].dep, f[i].soc, target, cap, minkw, R(maxkw))]
    /\ \E m \in MarketSetups :
          /\ start_quarter = m.quarter
          /\ dam_prices = DamFrame(m.kind, m.quarter)
          /\ idm_15_prices = Idm15Frame(m.kind, m.quarter)
          /\ idm_60_prices = Idm60Frame(m.kind, m.quarter)
    /\ DAM_ALLOCATION \in DamAllocations
    /\ fleet_call = None
    /\ baseline_results = None
    /\ optimized_results = None
    /\ pc = "idle"
    /\ baseline = <<>>
    /\ optimized = <<>>
    /\ eligible_vehicles = <<>>
    /\ time_slot_needs = <<>>
    /\ idx = 0
    /\ calls = <<>>
    /\ summary = None

-----------------------------------------------------------------------------
(* Helpers shared by both strategies *)

\* get_eligible_vehicles: the vehicles (by position) whose stay overlaps the horizon
get_eligible_vehicles(vs, start_time, end_time) ==
    SelectSeq([i \in 1 .. Len(vs) |-> i],
              LAMBDA i : vs[i].departure_time > start_time /\ vs[i].arrival_time < end_time)

\* Rows of a price frame with lo <= Time < hi
PricesInRange(prices, lo, hi) ==
    SelectSeq(prices, LAMBDA r : r.Time >= lo /\ r.Time < hi)

\* (prices['Time'] - t).abs().idxmin(): the first row nearest to t
ClosestIdx(prices, t) ==
    CHOOSE i \in 1 .. Len(prices) :
        /\ \A j \in 1 .. Len(prices) : Abs(prices[i].Time - t) <= Abs(prices[j].Time - t)
        /\ \A j \in 1 .. (i - 1) : Abs(prices[i].Time - t) < Abs(prices[j].Time - t)

\* Series.idxmin() of an empty Series raises ValueError: the nearest-record
\* lookup of a slot raises when the frame holds no record at all
PriceLookupRaises(prices) ==
    \E h \in 0 .. (HorizonHours - 1) :
        LET t == simulation_start + h * TicksPerHour
        IN  PricesInRange(prices, t, t + TicksPerHour) = <<>> /\ prices = <<>>

\* DAM price of the hour starting at t: the first record of the hour, else the
\* nearest record, else the default
DamPriceAt(prices, t) ==
    LET in_range == PricesInRange(prices, t, t + TicksPerHour)
    IN  IF in_range # <<>> THEN in_range[1].cena
        ELSE IF ClosestIdx(prices, t) - 1 < Len(prices)
             THEN prices[ClosestIdx(prices, t)].cena
             ELSE DefaultDamPrice

\* An ascending sort that puts a row before the rows of its own price
RECURSIVE InsertByPrice_TiesFirst(_, _)
InsertByPrice_TiesFirst(sorted, x) ==
    IF sorted = <<>> THEN <<x>>
    ELSE IF sorted[Len(sorted)].price < x.price THEN Append(sorted, x)
    ELSE Append(InsertByPrice_TiesFirst(SubSeq(sorted, 1, Len(sorted) - 1), x),
                sorted[Len(sorted)])

\* Stable ascending sort of rows by their price
RECURSIVE InsertByPrice(_, _)
InsertByPrice(sorted, x) ==
    IF sorted = <<>> THEN <<x>>
    ELSE IF sorted[Len(sorted)].price <= x.price THEN Append(sorted, x)
    ELSE Append(InsertByPrice(SubSeq(sorted, 1, Len(sorted) - 1), x), sorted[Len(sorted)])

RECURSIVE SortByPrice(_)
SortByPrice(s) ==
    IF s = <<>> THEN <<>>
    ELSE InsertByPrice(SortByPrice(SubSeq(s, 1, Len(s) - 1)), s[Len(s)])

-----------------------------------------------------------------------------
(* baseline_strategy: DAM only, hourly slots *)

\* The empty hourly table with the DAM price of every hour mapped in
BaselineTable(prices) ==
    [i \in 1 .. HorizonHours |->
        LET time == simulation_start + (i - 1) * TicksPerHour
        IN  [Time |-> time,
             total_charge_kw |-> Zero,
             dam_price |-> DamPriceAt(prices, time),
             dam_cost |-> Zero,
             total_ev_charging |-> 0]]

MinTime(table) == table[1].Time
MaxTime(table) == table[Len(table)].Time

Max2(a, b) == IF a >= b THEN a ELSE b
Min2(a, b) == IF a <= b THEN a ELSE b

\* The hourly slots of the vehicle's charging window, cheapest first
BaselineChargingSlots(table, v) ==
    LET charging_start == Max2(v.arrival_time, MinTime(table))
        charging_end == Min2(v.departure_time, MaxTime(table))
        charging_slots == SelectSeq(table, LAMBDA row :
                              row.Time >= charging_start /\ row.Time < charging_end)
    IN  SortByPrice([i \in 1 .. Len(charging_slots) |->
                        [Time |-> charging_slots[i].Time,
                         price |-> charging_slots[i].dam_price]])

\* The greedy loop over the sorted slots: min(max_charge_kw, remaining_energy)
\* per hour until nothing remains
RECURSIVE BaselineAllocate(_, _, _)
BaselineAllocate(slots, remaining_energy, max_charge_kw) ==
    IF slots = <<>> \/ RLe(remaining_energy, Zero) THEN <<>>
    ELSE LET max_energy_per_hour == RMin(max_charge_kw, remaining_energy)
         IN  <<[Time |-> Head(slots).Time, kw |-> max_energy_per_hour]>>
             \o BaselineAllocate(Tail(slots), RSub(remaining_energy, max_energy_per_hour),
                                 max_charge_kw)

\* Variant: the need measured from current_soc instead of return_soc
BaselineEnergyNeeded_FromCurrent(v) ==
    RMul(RSub(v.target_soc, v.current_soc), R(v.capacity_kwh))

\* The energy the baseline reads as the vehicle's need
BaselineEnergyNeeded(v) == EnergyNeeded(v)

\* Power the allocation puts at `time` (zero when the slot is not used)
AllocatedAt(alloc, time) ==
    RSum([i \in 1 .. Len(alloc) |-> IF alloc[i].Time = time THEN alloc[i].kw ELSE Zero])

UsedTimes(alloc) == {alloc[i].Time : i \in 1 .. Len(alloc)}

BaselineStart ==
    /\ pc = "idle"
    /\ Len(calls) < MaxCalls
    /\ summary = None
    /\ calls' = Append(calls, "baseline")
    /\ IF PriceLookupRaises(dam_prices)
       THEN /\ pc' = "raised"
            /\ UNCHANGED <<baseline, eligible_vehicles, idx>>
       ELSE /\ baseline' = BaselineTable(dam_prices)
            /\ eligible_vehicles' = get_eligible_vehicles(vehicles, simulation_start, simulation_end)
            /\ idx' = 1
            /\ pc' = "baseline"
    /\ UNCHANGED <<vehicles, dam_prices, idm_15_prices, idm_60_prices, DAM_ALLOCATION, params, start_quarter, fleet_call, summary,
                   baseline_results, optimized_results, optimized, time_slot_needs>>

\* One iteration of `for vehicle in eligible_vehicles`: the table and the fleet
\* after vehicle vi is handled
BaselineStep(table, vs, vi) ==
    LET v == vs[vi]
        energy_needed_kwh == BaselineEnergyNeeded(v)
        slots == BaselineChargingSlots(table, v)
        alloc == BaselineAllocate(slots, energy_needed_kwh, v.max_charge_kw)
        energy_charged == RSum([i \in 1 .. Len(alloc) |-> alloc[i].kw])
    IN  IF RLe(energy_needed_kwh, Zero) \/ slots = <<>>
        THEN [table |-> table, vehicles |-> vs]
        ELSE [table |->
                 [i \in 1 .. Len(table) |->
                    IF table[i].Time \in UsedTimes(alloc)
                    THEN [table[i] EXCEPT
                             !.total_charge_kw = RAdd(@, AllocatedAt(alloc, table[i].Time)),
                             !.total_ev_charging = @ + 1]
                    ELSE table[i]],
              vehicles |->
                 [vs EXCEPT
                    ![vi].charging_schedule =
                        [t \in UsedTimes(alloc) |-> [kw |-> AllocatedAt(alloc, t)]],
                    ![vi].current_soc =
                        RAdd(v.return_soc, RDiv(energy_charged, R(v.capacity_kwh)))]]

BaselineVehicle ==
    /\ pc = "baseline"
    /\ idx <= Len(eligible_vehicles)
    /\ LET after == BaselineStep(baseline, vehicles, eligible_vehicles[idx])
       IN  /\ baseline' = after.table
           /\ vehicles' = after.vehicles
    /\ idx' = idx + 1
    /\ UNCHANGED <<dam_prices, idm_15_prices, idm_60_prices, DAM_ALLOCATION, params, start_quarter, fleet_call, summary,
                   baseline_results, optimized_results, pc, optimized,
                   eligible_vehicles, time_slot_needs, calls>>

\* dam_cost = total_charge_kw * dam_price / 1000 (1 h slots)
BaselineCosts(table) ==
    [i \in 1 .. Len(table) |->
        [table[i] EXCEPT !.dam_cost =
            RDiv(RMul(table[i].total_charge_kw, R(table[i].dam_price)), R(KwPerMw))]]

BaselineFinish ==
    /\ pc = "baseline"
    /\ idx > Len(eligible_vehicles)
    /\ baseline_results' = BaselineCosts(baseline)
    /\ baseline' = <<>>
    /\ eligible_vehicles' = <<>>
    /\ idx' = 0
    /\ pc' = "idle"
    /\ UNCHANGED <<vehicles, dam_prices, idm_15_prices, idm_60_prices, DAM_ALLOCATION, params, start_quarter, fleet_call, summary,
                   optimized_results, optimized, time_slot_needs, calls>>

-----------------------------------------------------------------------------
(* optimized_strategy: DAM + IDM, 15-minute slots, fleet-level IDM steps *)

\* time.replace(minute=0, second=0, microsecond=0)
HourOf(time) == time - ((time + start_quarter) % TicksPerHour)

\* IDM price of a slot: the first record of the slot, else the slot's DAM price
IdmPriceAt(prices, lo, hi, dam_price) ==
    LET in_range == PricesInRange(prices, lo, hi)
    IN  IF in_range # <<>> THEN in_range[1].cena ELSE dam_price

\* The empty 15-minute table with the prices of every slot loaded
OptimizedTable(dam, idm_15, idm_60) ==
    [i \in 1 .. (HorizonHours * TicksPerHour) |->
        LET time == simulation_start + (i - 1)
            hour == HourOf(time)
            dam_price == DamPriceAt(dam, hour)
            idm_15_price == IdmPriceAt(idm_15, time, time + 1, dam_price)
            idm_60_price == IdmPriceAt(idm_60, hour, hour + TicksPerHour, dam_price)
        IN  [Time |-> time,
             total_charge_kw |-> Zero,
             dam_charge_kw |-> Zero,
             idm_charge_kw |-> Zero,
             idm_15_charge_kw |-> Zero,
             idm_60_charge_kw |-> Zero,
             dam_price |-> dam_price,
             idm_price |-> Min2(idm_15_price, idm_60_price),
             idm_15_price |-> idm_15_price,
             idm_60_price |-> idm_60_price,
             dam_cost |-> Zero,
             idm_cost |-> Zero,
             idm_15_cost |-> Zero,
             idm_60_cost |-> Zero,
             total_ev_charging |-> 0,
             total_ev_charging_dam |-> 0,
             total_ev_charging_idm |-> 0,
             total_ev_charging_idm_15 |-> 0,
             total_ev_charging_idm_60 |-> 0]]

\* The ResetVehicle of a run that keeps what the run before left behind
ResetVehicle_Keep(v) == v

\* The vehicle dictionary after the reset at the head of phase 1
ResetVehicle(v) ==
    [v EXCEPT !.current_soc = v.return_soc, !.charging_schedule = <<>>]

\* `for vehicle in eligible_vehicles`: reset to the initial state
ResetEligible(vs, eligible) ==
    [i \in 1 .. Len(vs) |->
        IF \E k \in 1 .. Len(eligible) : eligible[k] = i
        THEN ResetVehicle(vs[i])
        ELSE vs[i]]

\* time_slot_needs with no need recorded
EmptyNeeds ==
    [i \in 1 .. (HorizonHours * TicksPerHour) |->
        [vehicles |-> <<>>, total_energy_kwh |-> Zero, total_power_kw |-> Zero]]

OptimizedStart ==
    /\ pc = "idle"
    /\ Len(calls) < MaxCalls
    /\ summary = None
    /\ calls' = Append(calls, "optimized")
    /\ IF PriceLookupRaises(dam_prices)
       THEN /\ pc' = "raised"
            /\ UNCHANGED <<optimized, eligible_vehicles, time_slot_needs, vehicles, idx>>
       ELSE /\ optimized' = OptimizedTable(dam_prices, idm_15_prices, idm_60_prices)
            /\ eligible_vehicles' = get_eligible_vehicles(vehicles, simulation_start, simulation_end)
            /\ time_slot_needs' = EmptyNeeds
            /\ vehicles' = ResetEligible(vehicles, eligible_vehicles')
            /\ idx' = 0
            /\ pc' = "phase1"
    /\ UNCHANGED <<dam_prices, idm_15_prices, idm_60_prices, DAM_ALLOCATION, params, start_quarter, fleet_call, summary,
                   baseline_results, optimized_results, baseline>>

\* Variant: valid_times without the arrival_time bound
ValidTimes_NoArrival(table, v) ==
    SelectSeq([i \in 1 .. Len(table) |-> table[i].Time],
              LAMBDA t : t < v.departure_time)

\* Variant: valid_times without the departure_time bound
ValidTimes_NoDeparture(table, v) ==
    SelectSeq([i \in 1 .. Len(table) |-> table[i].Time],
              LAMBDA t : t >= v.arrival_time)

\* valid_times: the slots of the schedule inside the vehicle's stay
ValidTimes(table, v) ==
    SelectSeq([i \in 1 .. Len(table) |-> table[i].Time],
              LAMBDA t : t >= v.arrival_time /\ t < v.departure_time)

\* time_prices: the valid slots with their DAM price, sorted by price
TimePrices(table, v) ==
    LET valid_times == ValidTimes(table, v)
    IN  SortByPrice([i \in 1 .. Len(valid_times) |->
                        [Time |-> valid_times[i],
                         price |-> table[valid_times[i] - simulation_start + 1].dam_price]])

\* A projection that takes max_charge_kw in every slot it consumes
ChargeAmountKwh_Uncapped(v, remaining_energy_kwh) == RMul(v.max_charge_kw, Quarter)

\* charge_amount_kwh = min(max_charge_kw * 0.25, remaining_energy_kwh)
ChargeAmountKwh(v, remaining_energy_kwh) ==
    RMin(RMul(v.max_charge_kw, Quarter), remaining_energy_kwh)

\* The loop over time_prices: the needs the vehicle records, in price order
RECURSIVE ProjectDemand(_, _, _)
ProjectDemand(v, time_prices, remaining_energy_kwh) ==
    IF time_prices = <<>> \/ RLe(remaining_energy_kwh, Zero) THEN <<>>
    ELSE LET charge_amount_kwh == ChargeAmountKwh(v, remaining_energy_kwh)
             charge_power_kw == RDiv(charge_amount_kwh, Quarter)
         IN  IF RLt(Zero, charge_amount_kwh)
             THEN <<[Time |-> Head(time_prices).Time,
                     energy_kwh |-> charge_amount_kwh,
                     power_kw |-> charge_power_kw]>>
                  \o ProjectDemand(v, Tail(time_prices),
                                   RSub(remaining_energy_kwh, charge_amount_kwh))
             ELSE ProjectDemand(v, Tail(time_prices), remaining_energy_kwh)

\* The needs one vehicle records (empty when it needs no energy or has no slot)
VehicleDemand(table, v) ==
    LET total_energy_needed_kwh == EnergyNeeded(v)
    IN  IF RLe(total_energy_needed_kwh, Zero) THEN <<>>
        ELSE ProjectDemand(v, TimePrices(table, v), total_energy_needed_kwh)

\* time_slot_needs after vehicles eligible[1..k] recorded their needs
RECURSIVE NeedsAfter(_, _, _, _, _)
NeedsAfter(needs, table, vs, eligible, k) ==
    IF k = 0 THEN needs
    ELSE LET prev == NeedsAfter(needs, table, vs, eligible, k - 1)
             vi == eligible[k]
             demand == VehicleDemand(table, vs[vi])
         IN  [i \in 1 .. Len(prev) |->
                LET hits == SelectSeq(demand, LAMBDA d : d.Time = table[i].Time)
                IN  IF hits = <<>> THEN prev[i]
                    ELSE [vehicles |-> Append(prev[i].vehicles,
                                              [vehicle |-> vi,
                                               energy_kwh |-> hits[1].energy_kwh,
                                               power_kw |-> hits[1].power_kw]),
                          total_energy_kwh |-> RAdd(prev[i].total_energy_kwh, hits[1].energy_kwh),
                          total_power_kw |-> RAdd(prev[i].total_power_kw, hits[1].power_kw)]]

\* PHASE 1: the charging needs of every time slot
OptimizedPhase1 ==
    /\ pc = "phase1"
    /\ time_slot_needs' = NeedsAfter(time_slot_needs, optimized, vehicles,
                                     eligible_vehicles, Len(eligible_vehicles))
    /\ idx' = 1
    /\ pc' = "phase2"
    /\ UNCHANGED <<vehicles, dam_prices, idm_15_prices, idm_60_prices, DAM_ALLOCATION, params, start_quarter, fleet_call, summary,
                   baseline_results, optimized_results, baseline, optimized,
                   eligible_vehicles, calls>>

\* idm_target_kw = total_power_kw - total_power_kw * DAM_ALLOCATION
IdmTargetKw(total_power_kw, dam_allocation) ==
    RSub(total_power_kw, RMul(total_power_kw, dam_allocation))

\* Variant: the IDM target booked without rounding to the step
IdmActualKw_Unrounded(idm_target_kw) == idm_target_kw

\* Variant: the IDM target rounded to the nearest step instead of down
IdmActualKw_Nearest(idm_target_kw) ==
    R(RInt(RDiv(RAdd(idm_target_kw, R(IdmStepKw \div 2)), R(IdmStepKw))) * IdmStepKw)

\* Variant: the IDM target rounded down to blocks of two steps
IdmActualKw_DoubleStep(idm_target_kw) ==
    R(RInt(RDiv(idm_target_kw, R(2 * IdmStepKw))) * 2 * IdmStepKw)

\* idm_actual_kw = int(idm_target_kw / 100) * 100
IdmActualKw(idm_target_kw) ==
    R(RInt(RDiv(idm_target_kw, R(IdmStepKw))) * IdmStepKw)

\* Variant: DAM takes its nominal share only, the rounding remainder is dropped
DamActualKw_TargetOnly(total_power_kw, idm_actual_kw) ==
    RMul(total_power_kw, DAM_ALLOCATION)

\* dam_actual_kw = total_power_kw - idm_actual_kw
DamActualKw(total_power_kw, idm_actual_kw) == RSub(total_power_kw, idm_actual_kw)

\* Variant: IDM-15 only when strictly cheaper
Use15MinIdm_Strict(idm_15_price, idm_60_price) == idm_15_price < idm_60_price

\* Variant: the IDM power goes to the dearer IDM sub-market
Use15MinIdm_Dearer(idm_15_price, idm_60_price) == idm_60_price <= idm_15_price

\* use_15_min_idm = idm_15_price <= idm_60_price
Use15MinIdm(idm_15_price, idm_60_price) == idm_15_price <= idm_60_price

\* Variant: the slot's IDM power booked on both IDM sub-markets
AllocatedRow_BothMarkets(row, n_vehicles, total_power_kw, idm_actual_kw, dam_actual_kw, use_15_min_idm) ==
    LET has_idm == RLt(Zero, idm_actual_kw)
        has_dam == RLt(Zero, dam_actual_kw)
    IN  [row EXCEPT
            !.idm_15_charge_kw = IF has_idm THEN idm_actual_kw ELSE @,
            !.total_ev_charging_idm_15 = IF has_idm THEN n_vehicles ELSE @,
            !.idm_60_charge_kw = IF has_idm THEN idm_actual_kw ELSE @,
            !.total_ev_charging_idm_60 = IF has_idm THEN n_vehicles ELSE @,
            !.idm_charge_kw = IF has_idm THEN idm_actual_kw ELSE @,
            !.total_ev_charging_idm = IF has_idm THEN n_vehicles ELSE @,
            !.dam_charge_kw = IF has_dam THEN dam_actual_kw ELSE @,
            !.total_ev_charging_dam = IF has_dam THEN n_vehicles ELSE @,
            !.total_charge_kw = total_power_kw,
            !.total_ev_charging = n_vehicles]

\* The row of the table after phase 2 wrote the slot's split into it
AllocatedRow(row, n_vehicles, total_power_kw, idm_actual_kw, dam_actual_kw, use_15_min_idm) ==
    LET has_idm == RLt(Zero, idm_actual_kw)
        has_dam == RLt(Zero, dam_actual_kw)
    IN  [row EXCEPT
            !.idm_15_charge_kw = IF has_idm /\ use_15_min_idm THEN idm_actual_kw ELSE @,
            !.total_ev_charging_idm_15 = IF has_idm /\ use_15_min_idm THEN n_vehicles ELSE @,
            !.idm_60_charge_kw = IF has_idm /\ ~use_15_min_idm THEN idm_actual_kw ELSE @,
            !.total_ev_charging_idm_60 = IF has_idm /\ ~use_15_min_idm THEN n_vehicles ELSE @,
            !.idm_charge_kw = IF has_idm THEN idm_actual_kw ELSE @,
            !.total_ev_charging_idm = IF has_idm THEN n_vehicles ELSE @,
            !.dam_charge_kw = IF has_dam THEN dam_actual_kw ELSE @,
            !.total_ev_charging_dam = IF has_dam THEN n_vehicles ELSE @,
            !.total_charge_kw = total_power_kw,
            !.total_ev_charging = n_vehicles]

\* Variant: the vehicle's IDM share taken from the IDM target before rounding
VehicleIdmKw_Target(vehicle_power_kw, idm_actual_kw, total_power_kw) ==
    RMul(vehicle_power_kw, RSub(R(1), DAM_ALLOCATION))

\* vehicle_idm_kw = vehicle_power_kw * (idm_actual_kw / total_power_kw)
VehicleIdmKw(vehicle_power_kw, idm_actual_kw, total_power_kw) ==
    RMul(vehicle_power_kw, RDiv(idm_actual_kw, total_power_kw))

\* Variant: every vehicle of the slot is handed the slot's whole DAM power
VehicleDamKw_Whole(vehicle_power_kw, dam_actual_kw, total_power_kw) == dam_actual_kw

\* Variant: the vehicle's DAM share taken from the nominal DAM_ALLOCATION
VehicleDamKw_Nominal(vehicle_power_kw, dam_actual_kw, total_power_kw) ==
    RMul(vehicle_power_kw, DAM_ALLOCATION)

\* vehicle_dam_kw = vehicle_power_kw * (dam_actual_kw / total_power_kw)
VehicleDamKw(vehicle_power_kw, dam_actual_kw, total_power_kw) ==
    RMul(vehicle_power_kw, RDiv(dam_actual_kw, total_power_kw))

IdmType(use_15_min_idm) == IF use_15_min_idm THEN "15min" ELSE "60min"

\* Variant: an entry with an IDM part is tagged 'IDM' whatever its DAM part
ScheduleWith_IdmFirst(schedule, time, vehicle_dam_kw, vehicle_idm_kw, use_15_min_idm) ==
    LET set(entry) == [t \in (DOMAIN schedule) \cup {time} |->
                          IF t = time THEN entry ELSE schedule[t]]
    IN  IF RLt(Zero, vehicle_idm_kw)
        THEN set([source |-> "IDM", kw |-> vehicle_idm_kw,
                  idm_type |-> IdmType(use_15_min_idm)])
        ELSE IF RLt(Zero, vehicle_dam_kw)
        THEN set([source |-> "DAM", kw |-> vehicle_dam_kw])
        ELSE schedule

\* The charging_schedule after the vehicle's entry for `time` is written
ScheduleWith(schedule, time, vehicle_dam_kw, vehicle_idm_kw, use_15_min_idm) ==
    LET set(entry) == [t \in (DOMAIN schedule) \cup {time} |->
                          IF t = time THEN entry ELSE schedule[t]]
    IN  IF RLt(Zero, vehicle_idm_kw) /\ RLt(Zero, vehicle_dam_kw)
        THEN set([source |-> "MIXED", kw_dam |-> vehicle_dam_kw, kw_idm |-> vehicle_idm_kw,
                  idm_type |-> IdmType(use_15_min_idm)])
        ELSE IF RLt(Zero, vehicle_idm_kw)
        THEN set([source |-> "IDM", kw |-> vehicle_idm_kw,
                  idm_type |-> IdmType(use_15_min_idm)])
        ELSE IF RLt(Zero, vehicle_dam_kw)
        THEN set([source |-> "DAM", kw |-> vehicle_dam_kw])
        ELSE schedule

\* PHASE 3 for one vehicle of the slot: SOC and charging_schedule
DistributedVehicle(v, time, vehicle_power_kw, idm_actual_kw, dam_actual_kw, total_power_kw, use_15_min_idm) ==
    LET vehicle_idm_kw == VehicleIdmKw(vehicle_power_kw, idm_actual_kw, total_power_kw)
        vehicle_dam_kw == VehicleDamKw(vehicle_power_kw, dam_actual_kw, total_power_kw)
        total_energy_kwh == RAdd(RMul(vehicle_idm_kw, Quarter), RMul(vehicle_dam_kw, Quarter))
    IN  [v EXCEPT
            !.current_soc = RAdd(@, RDiv(total_energy_kwh, R(v.capacity_kwh))),
            !.charging_schedule =
                ScheduleWith(@, time, vehicle_dam_kw, vehicle_idm_kw, use_15_min_idm)]

\* PHASES 2 and 3: one iteration of `for i, time in enumerate(schedule_times)`:
\* the table and the fleet after slot i is handled
OptimizedStep(table, vs, needs, i, dam_allocation) ==
    LET slot_needs == needs[i]
        row == table[i]
        total_power_kw == slot_needs.total_power_kw
        idm_actual_kw == IdmActualKw(IdmTargetKw(total_power_kw, dam_allocation))
        dam_actual_kw == DamActualKw(total_power_kw, idm_actual_kw)
        use_15_min_idm == Use15MinIdm(row.idm_15_price, row.idm_60_price)
        demand_of(vi) ==
            LET hits == SelectSeq(slot_needs.vehicles, LAMBDA d : d.vehicle = vi)
            IN  IF hits = <<>> THEN None ELSE hits[1]
    IN  IF slot_needs.vehicles = <<>>
        THEN [table |-> table, vehicles |-> vs]
        ELSE [table |->
                 [table EXCEPT ![i] =
                     AllocatedRow(row, Len(slot_needs.vehicles), total_power_kw,
                                  idm_actual_kw, dam_actual_kw, use_15_min_idm)],
              vehicles |->
                 [vi \in 1 .. Len(vs) |->
                    IF RLt(Zero, total_power_kw) /\ demand_of(vi) # None
                    THEN DistributedVehicle(vs[vi], row.Time, demand_of(vi).power_kw,
                                            idm_actual_kw, dam_actual_kw, total_power_kw,
                                            use_15_min_idm)
                    ELSE vs[vi]]]

OptimizedSlot ==
    /\ pc = "phase2"
    /\ idx <= Len(optimized)
    /\ LET after == OptimizedStep(optimized, vehicles, time_slot_needs, idx, DAM_ALLOCATION)
       IN  /\ optimized' = after.table
           /\ vehicles' = after.vehicles
    /\ idx' = idx + 1
    /\ UNCHANGED <<dam_prices, idm_15_prices, idm_60_prices, DAM_ALLOCATION, params, start_quarter, fleet_call, summary,
                   baseline_results, optimized_results, pc, baseline,
                   eligible_vehicles, time_slot_needs, calls>>

\* A slot cost that takes the 15-minute slot for a whole hour
SlotCost_Hourly(charge_kw, price) == RDiv(RMul(charge_kw, R(price)), R(KwPerMw))

\* cost = charge_kw * price / 1000 * 0.25
SlotCost(charge_kw, price) ==
    RMul(RDiv(RMul(charge_kw, R(price)), R(KwPerMw)), Quarter)

\* The cost columns of the 15-minute table
OptimizedCosts(table) ==
    [i \in 1 .. Len(table) |->
        LET idm_15_cost == SlotCost(table[i].idm_15_charge_kw, table[i].idm_15_price)
            idm_60_cost == SlotCost(table[i].idm_60_charge_kw, table[i].idm_60_price)
        IN  [table[i] EXCEPT
                !.dam_cost = SlotCost(table[i].dam_charge_kw, table[i].dam_price),
                !.idm_15_cost = idm_15_cost,
                !.idm_60_cost = idm_60_cost,
                !.idm_cost = RAdd(idm_15_cost, idm_60_cost)]]

OptimizedFinish ==
    /\ pc = "phase2"
    /\ idx > Len(optimized)
    /\ optimized_results' = OptimizedCosts(optimized)
    /\ optimized' = <<>>
    /\ eligible_vehicles' = <<>>
    /\ time_slot_needs' = <<>>
    /\ idx' = 0
    /\ pc' = "idle"
    /\ UNCHANGED <<vehicles, dam_prices, idm_15_prices, idm_60_prices, DAM_ALLOCATION, params, start_quarter, fleet_call, summary,
                   baseline_results, baseline, calls>>

-----------------------------------------------------------------------------
(* A whole strategy call on a given fleet: the returned table and the fleet
   it leaves behind *)

RECURSIVE BaselineLoop(_, _, _, _)
BaselineLoop(table, vs, eligible, k) ==
    IF k = 0 THEN [table |-> table, vehicles |-> vs]
    ELSE LET prev == BaselineLoop(table, vs, eligible, k - 1)
         IN  BaselineStep(prev.table, prev.vehicles, eligible[k])

BaselineRun(vs, dam) ==
    LET eligible == get_eligible_vehicles(vs, simulation_start, simulation_end)
        done == BaselineLoop(BaselineTable(dam), vs, eligible, Len(eligible))
    IN  [table |-> BaselineCosts(done.table), vehicles |-> done.vehicles]

RECURSIVE OptimizedLoop(_, _, _, _, _)
OptimizedLoop(table, vs, needs, k, dam_allocation) ==
    IF k = 0 THEN [table |-> table, vehicles |-> vs]
    ELSE LET prev == OptimizedLoop(table, vs, needs, k - 1, dam_allocation)
         IN  OptimizedStep(prev.table, prev.vehicles, needs, k, dam_allocation)

OptimizedRun(vs, dam, idm_15, idm_60, dam_allocation) ==
    LET table == OptimizedTable(dam, idm_15, idm_60)
        eligible == get_eligible_vehicles(vs, simulation_start, simulation_end)
        reset == ResetEligible(vs, eligible)
        needs == NeedsAfter(EmptyNeeds, table, reset, eligible, Len(eligible))
        done == OptimizedLoop(table, reset, needs, Len(table), dam_allocation)
    IN  [table |-> OptimizedCosts(done.table), vehicles |-> done.vehicles]

\* The fleet as initialize_fleet leaves it: current_soc = return_soc, no schedule
FreshFleet(vs) == [i \in 1 .. Len(vs) |-> ResetVehicle(vs[i])]

-----------------------------------------------------------------------------
(* aggregate_hourly_results and summarize_results *)

\* Columns of the 15-minute table that hold Python ints or integer prices
IntColumns ==
    {"dam_price", "idm_price", "idm_15_price", "idm_60_price", "total_ev_charging",
     "total_ev_charging_dam", "total_ev_charging_idm", "total_ev_charging_idm_15",
     "total_ev_charging_idm_60"}

\* agg_dict: the columns aggregated with 'sum'; every other column with 'mean'
SumColumns == {"dam_cost", "idm_cost", "idm_15_cost", "idm_60_cost"}

\* The value of a cell as a float
Cell(row, col) == IF col \in IntColumns THEN R(row[col]) ELSE row[col]

\* results[col].sum()
ColumnSum(results, col) == RSum([i \in 1 .. Len(results) |-> Cell(results[i], col)])

\* groupby('hour').agg(agg_dict): one row per hour, in ascending order of hour
aggregate_hourly_results(results) ==
    IF results = None THEN None
    ELSE IF Len(results) > 1 /\ results[2].Time - results[1].Time = 1
    THEN LET hours == SortedTimes({HourOf(results[i].Time) : i \in 1 .. Len(results)})
             group(h) == SelectSeq(results, LAMBDA row : HourOf(row.Time) = h)
         IN  [k \in 1 .. Len(hours) |->
                [col \in DOMAIN results[1] |->
                    IF col = "Time" THEN hours[k]
                    ELSE IF col \in SumColumns THEN ColumnSum(group(hours[k]), col)
                    ELSE RDiv(ColumnSum(group(hours[k]), col), R(Len(group(hours[k]))))]]
    ELSE results

\* round(x) of a non-negative float: to the nearest integer, halves to even
Round(x) ==
    LET floor == x[1] \div x[2]
        twice == 2 * (x[1] - floor * x[2])
    IN  IF twice < x[2] THEN floor
        ELSE IF twice > x[2] THEN floor + 1
        ELSE IF floor % 2 = 0 THEN floor ELSE floor + 1

\* An average per kWh that reports the cost itself when there is no energy
AveragePrice_PerKwh(cost, energy) ==
    IF RLt(Zero, energy) THEN RDiv(cost, energy) ELSE cost

\* `cost / (energy / 1000) if energy > 0 else 0`
AveragePrice(cost, energy) ==
    IF RLt(Zero, energy) THEN RDiv(cost, RDiv(energy, R(KwPerMw))) ELSE Zero

\* calculate_average_price(energy_kwh, cost_eur)
calculate_average_price(energy_kwh, cost_eur) ==
    IF RLt(Zero, energy_kwh) THEN RDiv(cost_eur, RDiv(energy_kwh, R(KwPerMw))) ELSE Zero

\* min(v['current_soc'] for v in self.vehicles)
RECURSIVE MinSoc(_)
MinSoc(socs) ==
    IF Len(socs) = 1 THEN socs[1] ELSE RMin(Head(socs), MinSoc(Tail(socs)))

\* Number of vehicles the warning branch counts: current_soc < target_soc
CountBelowTarget(vs) ==
    Cardinality({i \in 1 .. Len(vs) : RLt(vs[i].current_soc, vs[i].target_soc)})

\* Everything summarize_results computes and prints from both result tables
\* and the fleet
SummaryOf(self_fleet_size, base, opt, vs) ==
    LET span == MaxTime(base) - MinTime(base)
        simulation_days ==
            Max2(1, Round(RAdd(Rat(span, 24 * TicksPerHour), Rat(1, 24))))
        hourly_optimized == aggregate_hourly_results(opt)
        baseline_total_cost == ColumnSum(base, "dam_cost")
        optimized_dam_cost == ColumnSum(hourly_optimized, "dam_cost")
        optimized_idm_15_cost == ColumnSum(hourly_optimized, "idm_15_cost")
        optimized_idm_60_cost == ColumnSum(hourly_optimized, "idm_60_cost")
        optimized_idm_cost == RAdd(optimized_idm_15_cost, optimized_idm_60_cost)
        optimized_total_cost == RAdd(optimized_dam_cost, optimized_idm_cost)
        savings == RSub(baseline_total_cost, optimized_total_cost)
        baseline_energy == ColumnSum(base, "total_charge_kw")
        optimized_dam_energy == ColumnSum(hourly_optimized, "dam_charge_kw")
        optimized_idm_15_energy == ColumnSum(hourly_optimized, "idm_15_charge_kw")
        optimized_idm_60_energy == ColumnSum(hourly_optimized, "idm_60_charge_kw")
        optimized_total_energy ==
            RAdd(RAdd(optimized_dam_energy, optimized_idm_15_energy), optimized_idm_60_energy)
        vehicle_days == self_fleet_size * simulation_days
        socs == [i \in 1 .. Len(vs) |-> vs[i].current_soc]
        all_reached_target ==
            \A i \in 1 .. Len(vs) : RLe(vs[i].target_soc, vs[i].current_soc)
    IN  [printed |-> "summary",
         simulation_days |-> simulation_days,
         baseline_total_cost |-> baseline_total_cost,
         optimized_dam_cost |-> optimized_dam_cost,
         optimized_idm_15_cost |-> optimized_idm_15_cost,
         optimized_idm_60_cost |-> optimized_idm_60_cost,
         optimized_total_cost |-> optimized_total_cost,
         savings |-> savings,
         savings_pct |-> IF RLt(Zero, baseline_total_cost)
                         THEN RMul(RDiv(savings, baseline_total_cost), R(100))
                         ELSE Zero,
         baseline_energy |-> baseline_energy,
         optimized_dam_energy |-> optimized_dam_energy,
         optimized_idm_15_energy |-> optimized_idm_15_energy,
         optimized_idm_60_energy |-> optimized_idm_60_energy,
         optimized_total_energy |-> optimized_total_energy,
         baseline_avg_price |-> AveragePrice(baseline_total_cost, baseline_energy),
         optimized_dam_avg_price |-> AveragePrice(optimized_dam_cost, optimized_dam_energy),
         optimized_idm_15_avg_price |->
             AveragePrice(optimized_idm_15_cost, optimized_idm_15_energy),
         optimized_idm_60_avg_price |->
             AveragePrice(optimized_idm_60_cost, optimized_idm_60_energy),
         optimized_total_avg_price |->
             AveragePrice(optimized_total_cost, optimized_total_energy),
         daily_baseline_cost |-> RDiv(baseline_total_cost, R(simulation_days)),
         daily_optimized_cost |-> RDiv(optimized_total_cost, R(simulation_days)),
         per_vehicle_baseline_cost |-> RDiv(baseline_total_cost, R(vehicle_days)),
         per_vehicle_optimized_cost |-> RDiv(optimized_total_cost, R(vehicle_days)),
         avg_departure_soc |-> RDiv(RSum(socs), R(Len(vs))),
         min_departure_soc |-> MinSoc(socs),
         all_reached_target |-> all_reached_target,
         count |-> IF all_reached_target THEN 0 ELSE CountBelowTarget(vs)]

\* summarize_results: prints the summary, or that there is nothing to
\* summarize.  It is called once, after the strategy calls (as main does), so
\* a strategy starts only while nothing has been summarized.
summarize_results ==
    /\ pc = "idle"
    /\ summary = None
    /\ summary' = IF baseline_results = None \/ optimized_results = None
                  THEN [printed |-> "no results"]
                  ELSE SummaryOf(params.fleet_size, baseline_results,
                                 optimized_results, vehicles)
    /\ UNCHANGED <<params, start_quarter, fleet_call, vehicles, dam_prices, idm_15_prices, idm_60_prices,
                   DAM_ALLOCATION, baseline_results, optimized_results, pc, baseline,
                   optimized, eligible_vehicles, time_slot_needs, idx, calls>>

-----------------------------------------------------------------------------

Next ==
    \/ BaselineStart
    \/ BaselineVehicle
    \/ BaselineFinish
    \/ OptimizedStart
    \/ OptimizedPhase1
    \/ OptimizedSlot
    \/ OptimizedFinish
    \/ summarize_results

Spec == Init /\ [][Next]_vars

-----------------------------------------------------------------------------
(* initialize_fleet: the stays it generates, on the calendar.  Times are ticks
   from simulation_start; fleet_call.simulation_start holds the weekday
   (Monday = 0) and the hour of day of simulation_start. *)

TicksPerDay == 24 * TicksPerHour

\* Arguments of the call and samples of the random draws
StartWeekdays == 0 .. 6                      \* simulation_start.weekday()
StartHours == {0, 8}                         \* simulation_start.hour
SimulationDayCounts == 1 .. MaxSimulationDays
HoursBefore == {1, 6}                        \* random.randint(1, 6)
PreDepartureHours == {7, 12}                 \* random.randint(7, 12)
MorningArrivalHours == {6}                   \* random.randint(6, 10)
DayArrivalHours == {10}                      \* random.randint(10, 16)
SameDayDepartureHours == {19}                \* random.randint(19, 23)
NextDayDepartureHours == {6}                 \* random.randint(6, 10)
PmfArrivalHours == {18}                      \* hour sampled from arrival_pmf
PmfDepartureHours == {7}                     \* hour sampled from departure_pmf
PreSocs == {Rat(1, 10)}                      \* random.uniform(0.1, 0.4)
DaySocs == {Rat(2, 5)}                       \* random.uniform(0.2, 0.5)
PmfSocs == {Rat(2, 5)}                       \* _sample_soc()

\* Midnight of the date `day` days after the date of simulation_start
Midnight(day) == day * TicksPerDay - fleet_call.simulation_start.hour * TicksPerHour

\* (date `day` days after simulation_start's date).replace(hour=hour, minute=0)
ReplaceHour(day, hour) == Midnight(day) + hour * TicksPerHour

\* Days from the date of simulation_start to the date of time t (-1: the eve)
DateOf(t) == ((t - Midnight(0) + TicksPerDay) \div TicksPerDay) - 1

\* datetime.weekday() of the date `day` days after simulation_start's date
WeekdayOfDay(day) == (fleet_call.simulation_start.weekday + 7 + day) % 7

\* datetime.weekday() of time t: Monday = 0 ... Saturday = 5, Sunday = 6
Weekday(t) == WeekdayOfDay(DateOf(t))

\* pre_simulation_vehicles_count = min(self.fleet_size // 3, 50)
PreSimulationCount(self) == Min2(self.fleet_size \div 3, 50)

\* morning_arrivals = day_arrivals = self.fleet_size // 4
BlockArrivals(self) == self.fleet_size \div 4

\* self.vehicles after the `if energy_needed_kwh > 0 and charging_hours > 0`
\* that guards every append
AppendVehicle(vs, self, id, arrival_time, departure_time, return_soc) ==
    LET energy_needed_kwh == RMul(RSub(self.min_soc_target, return_soc), R(self.ev_capacity))
        charging_hours == departure_time - arrival_time
    IN  IF RLt(Zero, energy_needed_kwh) /\ charging_hours > 0
        THEN Append(vs, Vehicle(id, arrival_time, departure_time, return_soc,
                                self.min_soc_target, self.ev_capacity,
                                self.min_charge_kw, self.max_charge_kw))
        ELSE vs

\* days_to_add = 8 - next_day.weekday()
DaysToAdd(weekday) == 8 - weekday

\* The date a PMF vehicle of `day` departs on: the next day, moved when it is
\* a weekend day and self.workdays_only is set
DepartureDay(self, day) ==
    LET next_day == day + 1
    IN  IF self.workdays_only /\ WeekdayOfDay(next_day) >= 5
        THEN next_day + DaysToAdd(WeekdayOfDay(next_day))
        ELSE next_day

\* self.vehicles.sort(key=lambda x: x['arrival_time']): a stable sort
RECURSIVE InsertByArrival(_, _)
InsertByArrival(sorted, v) ==
    IF sorted = <<>> THEN <<v>>
    ELSE IF sorted[Len(sorted)].arrival_time <= v.arrival_time THEN Append(sorted, v)
    ELSE Append(InsertByArrival(SubSeq(sorted, 1, Len(sorted) - 1), v), sorted[Len(sorted)])

RECURSIVE SortByArrival(_)
SortByArrival(vs) ==
    IF vs = <<>> THEN <<>>
    ELSE InsertByArrival(SortByArrival(SubSeq(vs, 1, Len(vs) - 1)), vs[Len(vs)])

\* The optimizer is constructed, the market data loaded, and initialize_fleet
\* has just emptied self.vehicles
FleetInit ==
    /\ \E cap \in EvCapacities, maxkw \in MaxChargeKws, minkw \in MinChargeKws,
          target \in MinSocTargets, workdays_only \in BOOLEAN :
          params = [fleet_size |-> FleetSize, ev_capacity |-> cap,
                    min_charge_kw |-> minkw, max_charge_kw |-> R(maxkw),
                    min_soc_target |-> target, workdays_only |-> workdays_only]
    /\ \E weekday \in StartWeekdays, hour \in StartHours, days \in SimulationDayCounts :
          fleet_call = [simulation_start |-> [weekday |-> weekday, hour |-> hour],
                        simulation_days |-> days,
                        day |-> 0,
                        remaining_vehicles |-> 0]
    /\ vehicles = <<>>
    /\ start_quarter = 0
    /\ dam_prices = DamFrame("rising", 0)
    /\ idm_15_prices = Idm15Frame("rising", 0)
    /\ idm_60_prices = Idm60Frame("rising", 0)
    /\ DAM_ALLOCATION = Rat(1, 20)
    /\ baseline_results = None
    /\ optimized_results = None
    /\ pc = "pre_simulation"
    /\ baseline = <<>>
    /\ optimized = <<>>
    /\ eligible_vehicles = <<>>
    /\ time_slot_needs = <<>>
    /\ idx = 0
    /\ calls = <<>>
    /\ summary = None

FleetUnchanged ==
    UNCHANGED <<params, start_quarter, dam_prices, idm_15_prices, idm_60_prices,
                DAM_ALLOCATION, baseline_results, optimized_results, baseline, optimized,
                eligible_vehicles, time_slot_needs, calls, summary>>

\* `for i in range(pre_simulation_vehicles_count)`: the vehicles already
\* plugged in when the simulation starts
PreSimulationVehicles ==
    /\ pc = "pre_simulation"
    /\ IF idx < PreSimulationCount(params)
       THEN /\ \E hours_before \in HoursBefore, departure_hour \in PreDepartureHours,
                  return_soc \in PreSocs :
                  vehicles' = AppendVehicle(vehicles, params,
                                  [day |-> -1, block |-> "pre", i |-> idx],
                                  simulation_start - hours_before * TicksPerHour,
                                  ReplaceHour(0, departure_hour), return_soc)
            /\ idx' = idx + 1
            /\ UNCHANGED pc
       ELSE /\ pc' = "day_loop"
            /\ idx' = 0
            /\ UNCHANGED vehicles
    /\ UNCHANGED fleet_call
    /\ FleetUnchanged

\* `if self.workdays_only and is_weekend: continue`
SkipWeekendDay ==
    /\ pc = "day_loop"
    /\ fleet_call.day < fleet_call.simulation_days
    /\ params.workdays_only /\ WeekdayOfDay(fleet_call.day) >= 5
    /\ fleet_call' = [fleet_call EXCEPT !.day = @ + 1]
    /\ UNCHANGED <<vehicles, pc, idx>>
    /\ FleetUnchanged

\* A day that generates vehicles: day 0 starts with the morning block, every
\* other day hands the whole fleet to the PMF block
StartDay ==
    /\ pc = "day_loop"
    /\ fleet_call.day < fleet_call.simulation_days
    /\ ~(params.workdays_only /\ WeekdayOfDay(fleet_call.day) >= 5)
    /\ IF fleet_call.day = 0
       THEN pc' = "morning" /\ UNCHANGED fleet_call
       ELSE /\ pc' = "evening"
            /\ fleet_call' = [fleet_call EXCEPT !.remaining_vehicles = params.fleet_size]
    /\ idx' = 0
    /\ UNCHANGED vehicles
    /\ FleetUnchanged

\* A day-0 vehicle that leaves the same evening or the next morning
DayZeroVehicle(block, arrival_hours) ==
    \E arrival_hour \in arrival_hours, same_day \in BOOLEAN,
       evening_hour \in SameDayDepartureHours, morning_hour \in NextDayDepartureHours,
       return_soc \in DaySocs :
        LET day == fleet_call.day
            arrival_time == ReplaceHour(day, arrival_hour)
            departure_time == IF same_day THEN ReplaceHour(day, evening_hour)
                              ELSE ReplaceHour(day + 1, morning_hour)
        IN  vehicles' = AppendVehicle(vehicles, params,
                            [day |-> day, block |-> block, i |-> idx],
                            arrival_time, departure_time, return_soc)

\* `for i in range(morning_arrivals)`
MorningArrivals ==
    /\ pc = "morning"
    /\ IF idx < BlockArrivals(params)
       THEN DayZeroVehicle("morning", MorningArrivalHours) /\ idx' = idx + 1 /\ UNCHANGED pc
       ELSE pc' = "day_arrivals" /\ idx' = 0 /\ UNCHANGED vehicles
    /\ UNCHANGED fleet_call
    /\ FleetUnchanged

\* `for i in range(day_arrivals)`, then remaining_vehicles for day 0
DayArrivals ==
    /\ pc = "day_arrivals"
    /\ IF idx < BlockArrivals(params)
       THEN /\ DayZeroVehicle("day", DayArrivalHours)
            /\ idx' = idx + 1
            /\ UNCHANGED <<pc, fleet_call>>
       ELSE /\ pc' = "evening"
            /\ idx' = 0
            /\ fleet_call' = [fleet_call EXCEPT !.remaining_vehicles =
                                 params.fleet_size - PreSimulationCount(params)
                                     - BlockArrivals(params) - BlockArrivals(params)]
            /\ UNCHANGED vehicles
    /\ FleetUnchanged

\* `for i in range(remaining_vehicles)`: arrival and departure sampled from
\* the PMFs
EveningVehicles ==
    /\ pc = "evening"
    /\ IF idx < fleet_call.remaining_vehicles
       THEN /\ \E arrival_hour \in PmfArrivalHours, departure_hour \in PmfDepartureHours,
                  return_soc \in PmfSocs :
                  LET day == fleet_call.day
                      arrival_time == ReplaceHour(day, arrival_hour)
                      sampled == ReplaceHour(DepartureDay(params, day), departure_hour)
                      departure_time == IF sampled <= arrival_time
                                        THEN arrival_time + 6 * TicksPerHour
                                        ELSE sampled
                  IN  vehicles' = AppendVehicle(vehicles, params,
                                      [day |-> day, block |-> "evening", i |-> idx],
                                      arrival_time, departure_time, return_soc)
            /\ idx' = idx + 1
            /\ UNCHANGED <<pc, fleet_call>>
       ELSE /\ pc' = "day_loop"
            /\ idx' = 0
            /\ fleet_call' = [fleet_call EXCEPT !.day = @ + 1]
            /\ UNCHANGED vehicles
    /\ FleetUnchanged

\* The loop over the days has ended: the fleet is sorted and the call returns
SortFleet ==
    /\ pc = "day_loop"
    /\ fleet_call.day = fleet_call.simulation_days
    /\ vehicles' = SortByArrival(vehicles)
    /\ pc' = "idle"
    /\ UNCHANGED <<fleet_call, idx>>
    /\ FleetUnchanged

FleetNext ==
    \/ PreSimulationVehicles
    \/ SkipWeekendDay
    \/ StartDay
    \/ MorningArrivals
    \/ DayArrivals
    \/ EveningVehicles
    \/ SortFleet

FleetSpec == FleetInit /\ [][FleetNext]_vars

-----------------------------------------------------------------------------
(* Properties of the result table of optimized_strategy *)

HasOptimizedResults == optimized_results # None

OptimizedRows == {optimized_results[i] : i \in 1 .. Len(optimized_results)}

IsStepMultiple(x) == x[2] = 1 /\ x[1] >= 0 /\ x[1] % IdmStepKw = 0

\* The IDM rounding dropped part of the slot's IDM target
RoundedDown(row) ==
    /\ RLt(Zero, row.idm_charge_kw)
    /\ RLt(row.idm_charge_kw, IdmTargetKw(row.total_charge_kw, DAM_ALLOCATION))

\* C1: in every slot of the table optimized_strategy returns,
\* total_charge_kw = dam_charge_kw + idm_15_charge_kw + idm_60_charge_kw.
C1_EnergyConservation ==
    HasOptimizedResults =>
        \A row \in OptimizedRows :
            row.total_charge_kw =
                RAdd(RAdd(row.dam_charge_kw, row.idm_15_charge_kw), row.idm_60_charge_kw)

\* C1 witness: a returned table with a slot whose IDM target was rounded down
\* while DAM and IDM both carry power.
C1_Witness ==
    /\ HasOptimizedResults
    /\ \E row \in OptimizedRows : RoundedDown(row) /\ RLt(Zero, row.dam_charge_kw)

\* C2: in every slot of the returned table idm_15_charge_kw and idm_60_charge_kw
\* are non-negative whole multiples of the 100 kW step.
C2_IdmBlocks ==
    HasOptimizedResults =>
        \A row \in OptimizedRows :
            IsStepMultiple(row.idm_15_charge_kw) /\ IsStepMultiple(row.idm_60_charge_kw)

\* C2 witness: a returned table holding a rounded-down IDM-15 slot and a
\* rounded-down IDM-60 slot.
C2_Witness ==
    /\ HasOptimizedResults
    /\ \E row \in OptimizedRows : RoundedDown(row) /\ RLt(Zero, row.idm_15_charge_kw)
    /\ \E row \in OptimizedRows : RoundedDown(row) /\ RLt(Zero, row.idm_60_charge_kw)

C5_CheaperIdmMarket ==
    HasOptimizedResults =>
        \A row \in OptimizedRows :
            RLt(Zero, row.idm_charge_kw) =>
                IF row.idm_15_price <= row.idm_60_price
                THEN row.idm_15_charge_kw = row.idm_charge_kw /\ row.idm_60_charge_kw = Zero
                ELSE row.idm_60_charge_kw = row.idm_charge_kw /\ row.idm_15_charge_kw = Zero

\* C5 witness: a returned table with IDM power in a slot where the two IDM
\* prices tie and in a slot where IDM-60 is strictly cheaper.
C5_Witness ==
    /\ HasOptimizedResults
    /\ \E row \in OptimizedRows :
          RLt(Zero, row.idm_charge_kw) /\ row.idm_15_price = row.idm_60_price
    /\ \E row \in OptimizedRows :
          RLt(Zero, row.idm_charge_kw) /\ row.idm_60_price < row.idm_15_price

-----------------------------------------------------------------------------
(* Properties of the vehicles' state *)

\* DAM and IDM power of a charging_schedule entry written by optimized_strategy
EntryDamKw(e) ==
    IF e.source = "MIXED" THEN e.kw_dam ELSE IF e.source = "DAM" THEN e.kw ELSE Zero
EntryIdmKw(e) ==
    IF e.source = "MIXED" THEN e.kw_idm ELSE IF e.source = "IDM" THEN e.kw ELSE Zero

\* C4: once a slot with demand T > 0 is distributed, each contributing vehicle
\* with projected demand d holds vehicle_dam_kw = d * dam_actual / T and
\* vehicle_idm_kw = d * idm_actual / T, which add up to d; with T = 250 and
\* DAM_ALLOCATION = 1/2 a vehicle demanding 50 kW holds dam = 30, idm = 20.
C4_ProportionalShares ==
    pc = "phase2" =>
        \A i \in 1 .. (idx - 1) :
            LET T == time_slot_needs[i].total_power_kw
                row == optimized[i]
                contributors == time_slot_needs[i].vehicles
            IN  RLt(Zero, T) =>
                  \A k \in 1 .. Len(contributors) :
                    LET d == contributors[k].power_kw
                        schedule == vehicles[contributors[k].vehicle].charging_schedule
                    IN  /\ row.Time \in DOMAIN schedule
                        /\ LET dam_kw == EntryDamKw(schedule[row.Time])
                               idm_kw == EntryIdmKw(schedule[row.Time])
                           IN  /\ dam_kw = RDiv(RMul(d, row.dam_charge_kw), T)
                               /\ idm_kw = RDiv(RMul(d, row.idm_charge_kw), T)
                               /\ RAdd(dam_kw, idm_kw) = d
                               /\ (T = R(250) /\ DAM_ALLOCATION = Rat(1, 2) /\ d = R(50)) =>
                                      (dam_kw = R(30) /\ idm_kw = R(20))

\* C4 witness: a distributed 250 kW slot under DAM_ALLOCATION = 1/2 with a
\* vehicle that demanded 50 kW in it.
C4_Witness ==
    /\ pc = "phase2"
    /\ DAM_ALLOCATION = Rat(1, 2)
    /\ \E i \in 1 .. (idx - 1) :
          /\ time_slot_needs[i].total_power_kw = R(250)
          /\ \E k \in 1 .. Len(time_slot_needs[i].vehicles) :
                time_slot_needs[i].vehicles[k].power_kw = R(50)

\* C7: no vehicle ever holds a charging_schedule entry at a time outside its
\* stay [arrival_time, departure_time) or outside the simulation horizon.
C7_ScheduleInsideStay ==
    \A i \in 1 .. Len(vehicles) :
        \A t \in DOMAIN vehicles[i].charging_schedule :
            /\ vehicles[i].arrival_time <= t /\ t < vehicles[i].departure_time
            /\ simulation_start <= t /\ t < simulation_end

\* C7 witness: both strategies have run; one vehicle that arrived after
\* simulation_start and left before simulation_end holds entries, and another
\* holds an entry of the baseline.
C7_Witness ==
    /\ pc = "idle"
    /\ baseline_results # None /\ optimized_results # None
    /\ \E i \in 1 .. Len(vehicles) :
          /\ vehicles[i].arrival_time > simulation_start
          /\ vehicles[i].departure_time < simulation_end
          /\ vehicles[i].charging_schedule # <<>>
    /\ \E i \in 1 .. Len(vehicles) :
          \E t \in DOMAIN vehicles[i].charging_schedule :
              DOMAIN vehicles[i].charging_schedule[t] = {"kw"}

-----------------------------------------------------------------------------
(* Independence of the two strategy runs *)

LastCall == calls[Len(calls)]

\* What each strategy returns and leaves behind on the freshly initialized fleet
BaselineOnFresh == BaselineRun(FreshFleet(vehicles), dam_prices)
OptimizedOnFresh ==
    OptimizedRun(FreshFleet(vehicles), dam_prices, idm_15_prices, idm_60_prices,
                 DAM_ALLOCATION)

IsReset(v) == v.current_soc = v.return_soc /\ v.charging_schedule = <<>>

\* A step that lowers no vehicle's current_soc and leaves none above target_soc
SocStepMonotonic ==
    \A i \in 1 .. Len(vehicles) :
        /\ RLe(vehicles[i].current_soc, vehicles'[i].current_soc)
        /\ RLe(vehicles'[i].current_soc, vehicles'[i].target_soc)

\* C6: while a strategy processes its slots, no vehicle's current_soc
\* decreases, and no current_soc exceeds target_soc.
C6_MonotonicSoc ==
    [][(pc \in {"baseline", "phase2"}) => SocStepMonotonic]_vars

\* C8: whenever strategy calls have returned, the cost table each strategy
\* returned is the one it returns on the freshly initialized fleet, whichever
\* strategy runs came before it.
C8_CostsIndependentOfOrder ==
    /\ (pc = "idle" /\ baseline_results # None) =>
           baseline_results = BaselineOnFresh.table
    /\ (pc = "idle" /\ optimized_results # None) =>
           optimized_results = OptimizedOnFresh.table

\* C8 witness: baseline_strategy returned a table with charging in it after an
\* optimized_strategy run had left charged vehicles behind.
C8_Witness ==
    /\ pc = "idle"
    /\ calls = <<"optimized", "baseline">>
    /\ \E i \in 1 .. Len(baseline_results) : RLt(Zero, baseline_results[i].total_charge_kw)
    /\ \E i \in 1 .. Len(optimized_results) : RLt(Zero, optimized_results[i].total_charge_kw)

\* C9: when a strategy run has finished, every vehicle's current_soc and
\* charging_schedule are what that strategy produces on the freshly
\* initialized fleet, whichever runs came before it.
C9_VehiclesIndependentOfOrder ==
    (pc = "idle" /\ calls # <<>>) =>
        vehicles = IF LastCall = "baseline"
                   THEN BaselineOnFresh.vehicles
                   ELSE OptimizedOnFresh.vehicles

\* C10: when a strategy run starts its work on the vehicles, every vehicle has
\* current_soc = return_soc and an empty charging_schedule.
C10_ResetAtStart ==
    (pc = "phase1" \/ (pc = "baseline" /\ idx = 1)) =>
        \A i \in 1 .. Len(vehicles) : IsReset(vehicles[i])

-----------------------------------------------------------------------------
(* Repeated runs of optimized_strategy *)

\* The call before the running one was optimized_strategy too
OptimizedTwiceInARow ==
    /\ Len(calls) >= 2
    /\ calls[Len(calls)] = "optimized"
    /\ calls[Len(calls) - 1] = "optimized"

\* The step on which an optimized_strategy call that follows another one returns
SecondOptimizedReturns == pc = "phase2" /\ pc' = "idle" /\ OptimizedTwiceInARow

\* C11: when optimized_strategy returns from a run that directly follows
\* another optimized_strategy run, the table it stores (per-slot charges and
\* costs, hence the totals summed from them) is the table the run before
\* stored, and every vehicle's current_soc and charging_schedule are those of
\* a run on the freshly initialized fleet, which is what the run before had.
C11_RepeatedRunIdentical ==
    [][SecondOptimizedReturns =>
          /\ optimized_results' = optimized_results
          /\ vehicles' = OptimizedOnFresh.vehicles]_vars

\* C11 witness: two optimized_strategy runs in a row have returned, with a
\* cost in the table and a charged vehicle.
C11_Witness ==
    /\ pc = "idle"
    /\ calls = <<"optimized", "optimized">>
    /\ \E i \in 1 .. Len(optimized_results) : RLt(Zero, optimized_results[i].dam_cost)
    /\ \E i \in 1 .. Len(vehicles) : RLt(vehicles[i].return_soc, vehicles[i].current_soc)

-----------------------------------------------------------------------------
(* Configuration errors *)

\* validate_parameters: the ValueError it raises, or "ok" when it returns.
\* No constructor, loader or strategy calls it.
validate_parameters(self) ==
    IF self.fleet_size <= 0 THEN "ValueError"
    ELSE IF self.ev_capacity <= 0 THEN "ValueError"
    ELSE IF \/ RLt(self.min_charge_kw, Zero)
            \/ RLe(self.max_charge_kw, Zero)
            \/ RLt(self.max_charge_kw, self.min_charge_kw) THEN "ValueError"
    ELSE IF RLe(self.min_soc_target, Zero) \/ RLt(R(1), self.min_soc_target) THEN "ValueError"
    ELSE "ok"

\* C12: a strategy call is made only on an optimizer whose fleet parameters
\* pass validation: with invalid parameters an error comes before any call of
\* baseline_strategy or optimized_strategy proceeds.
C12_InvalidConfigFailsFast ==
    calls # <<>> => validate_parameters(params) = "ok"

-----------------------------------------------------------------------------
(* Infeasible vehicles *)

\* Energy the slots a strategy offers the vehicle can deliver at max_charge_kw
DeliverableKwh(strategy, v) ==
    IF strategy = "baseline"
    THEN RMul(v.max_charge_kw, R(Len(BaselineChargingSlots(BaselineTable(dam_prices), v))))
    ELSE RMul(RMul(v.max_charge_kw, Quarter),
              R(Len(ValidTimes(OptimizedTable(dam_prices, idm_15_prices, idm_60_prices), v))))

\* The vehicle's valid slots under the strategy cannot deliver its deficit
Infeasible(strategy, v) == RLt(DeliverableKwh(strategy, v), EnergyNeeded(v))

\* C13: after a strategy run has returned, every vehicle whose valid slots
\* could not deliver its deficit at max_charge_kw has current_soc < target_soc,
\* and a summary printed then reports that not all vehicles reached the target
\* and counts every such vehicle.
C13_InfeasibleReported ==
    (pc = "idle" /\ calls # <<>>) =>
        LET short == {i \in 1 .. Len(vehicles) : Infeasible(LastCall, vehicles[i])}
        IN  /\ \A i \in short : RLt(vehicles[i].current_soc, vehicles[i].target_soc)
            /\ (short # {} /\ summary # None /\ summary.printed = "summary") =>
                  /\ ~summary.all_reached_target
                  /\ summary.count >= Cardinality(short)

-----------------------------------------------------------------------------
(* The demand projection of optimized_strategy (phase 1) *)

\* The needs vehicle vi recorded in time_slot_needs, slot by slot
Contributions(vi) ==
    LET slots == SelectSeq([i \in 1 .. Len(time_slot_needs) |-> i],
                    LAMBDA i : \E k \in 1 .. Len(time_slot_needs[i].vehicles) :
                                  time_slot_needs[i].vehicles[k].vehicle = vi)
    IN  [n \in 1 .. Len(slots) |->
            LET recorded == SelectSeq(time_slot_needs[slots[n]].vehicles,
                                      LAMBDA d : d.vehicle = vi)[1]
            IN  [slot |-> slots[n],
                 energy_kwh |-> recorded.energy_kwh,
                 power_kw |-> recorded.power_kw]]

ProjectedKwh(vi) ==
    RSum([n \in 1 .. Len(Contributions(vi)) |-> Contributions(vi)[n].energy_kwh])

StaySlots(vi) ==
    {i \in 1 .. Len(optimized) :
        /\ optimized[i].Time >= vehicles[vi].arrival_time
        /\ optimized[i].Time < vehicles[vi].departure_time}

DemandSlots(vi) ==
    {i \in 1 .. Len(time_slot_needs) :
        \E k \in 1 .. Len(time_slot_needs[i].vehicles) :
            time_slot_needs[i].vehicles[k].vehicle = vi}

\* C15: when phase 1 has ended, whenever a vehicle has demand in slot s and
\* none in a slot u of its stay, u is dearer on the DAM than s, or as dear
\* and later than s.
C15_CheapestFirst ==
    (pc = "phase2" /\ idx = 1) =>
        \A vi \in 1 .. Len(vehicles) :
            \A s \in DemandSlots(vi) :
                \A u \in StaySlots(vi) \ DemandSlots(vi) :
                    \/ optimized[u].dam_price > optimized[s].dam_price
                    \/ /\ optimized[u].dam_price = optimized[s].dam_price
                       /\ optimized[u].Time > optimized[s].Time

\* C15 witness: phase 1 has ended; a vehicle passed over an earlier, dearer
\* slot, and a vehicle passed over a later slot of the same price.
C15_Witness ==
    /\ pc = "phase2" /\ idx = 1
    /\ \E vi \in 1 .. Len(vehicles) :
          \E s \in DemandSlots(vi) : \E u \in StaySlots(vi) \ DemandSlots(vi) :
              u < s /\ optimized[u].dam_price > optimized[s].dam_price
    /\ \E vi \in 1 .. Len(vehicles) :
          \E s \in DemandSlots(vi) : \E u \in StaySlots(vi) \ DemandSlots(vi) :
              u > s /\ optimized[u].dam_price = optimized[s].dam_price

-----------------------------------------------------------------------------
(* The slots baseline_strategy considers *)

\* Start times of the hourly slots of the horizon inside the vehicle's stay
HourlyStaySlots(v) ==
    {t \in {simulation_start + h * TicksPerHour : h \in 0 .. (HorizonHours - 1)} :
        v.arrival_time <= t /\ t < v.departure_time}

\* C16: when baseline_strategy has returned from a run on the freshly
\* initialized fleet, a vehicle left below target_soc holds an allocation in
\* every hourly slot of the horizon that starts inside its stay
\* [arrival_time, departure_time), the last hour of the horizon included.
C16_BaselineUsesEveryHour ==
    (pc = "idle" /\ calls = <<"baseline">>) =>
        \A i \in 1 .. Len(vehicles) :
            RLt(vehicles[i].current_soc, vehicles[i].target_soc) =>
                \A t \in HourlyStaySlots(vehicles[i]) :
                    t \in DOMAIN vehicles[i].charging_schedule

-----------------------------------------------------------------------------
(* Cost accounting *)

\* cost = power_kw * price / 1000 * hours, written as cost * 1000 = power * price * hours
IsCostOf(cost, power_kw, price, hours) ==
    RMul(cost, R(1000)) = RMul(RMul(power_kw, R(price)), hours)

\* C17: in every slot of the table optimized_strategy returned each market's
\* cost is its charge_kw * its price / 1000 * 0.25, and in every slot of the
\* table baseline_strategy returned dam_cost is total_charge_kw * dam_price / 1000.
C17_CostFormula ==
    /\ optimized_results # None =>
          \A i \in 1 .. Len(optimized_results) :
              LET row == optimized_results[i]
              IN  /\ IsCostOf(row.dam_cost, row.dam_charge_kw, row.dam_price, Rat(1, 4))
                  /\ IsCostOf(row.idm_15_cost, row.idm_15_charge_kw, row.idm_15_price, Rat(1, 4))
                  /\ IsCostOf(row.idm_60_cost, row.idm_60_charge_kw, row.idm_60_price, Rat(1, 4))
    /\ baseline_results # None =>
          \A i \in 1 .. Len(baseline_results) :
              LET row == baseline_results[i]
              IN  IsCostOf(row.dam_cost, row.total_charge_kw, row.dam_price, R(1))

\* C17 witness: both tables returned, with a DAM, an IDM-15 and an IDM-60 cost
\* in the optimized table and a cost in the baseline table.
C17_Witness ==
    /\ optimized_results # None /\ baseline_results # None
    /\ \E i \in 1 .. Len(optimized_results) : RLt(Zero, optimized_results[i].dam_cost)
    /\ \E i \in 1 .. Len(optimized_results) : RLt(Zero, optimized_results[i].idm_15_cost)
    /\ \E i \in 1 .. Len(optimized_results) : RLt(Zero, optimized_results[i].idm_60_cost)
    /\ \E i \in 1 .. Len(baseline_results) : RLt(Zero, baseline_results[i].dam_cost)

-----------------------------------------------------------------------------
(* Average prices *)

\* avg is cost / (energy / 1000) for positive energy and exactly 0 for none
IsAverageOf(avg, cost, energy) ==
    IF RLt(Zero, energy) THEN RMul(avg, energy) = RMul(cost, R(1000)) ELSE avg = Zero

\* The (average, cost, energy) triples of a printed summary
SummaryAverages ==
    {<<summary.baseline_avg_price, summary.baseline_total_cost, summary.baseline_energy>>,
     <<summary.optimized_dam_avg_price, summary.optimized_dam_cost,
       summary.optimized_dam_energy>>,
     <<summary.optimized_idm_15_avg_price, summary.optimized_idm_15_cost,
       summary.optimized_idm_15_energy>>,
     <<summary.optimized_idm_60_avg_price, summary.optimized_idm_60_cost,
       summary.optimized_idm_60_energy>>,
     <<summary.optimized_total_avg_price, summary.optimized_total_cost,
       summary.optimized_total_energy>>}

HasSummary == summary # None /\ summary.printed = "summary"

\* C18: every average price summarize_results prints, and what
\* calculate_average_price returns for the same cost and energy, is
\* cost / (energy / 1000) when the energy is positive and exactly 0 when the
\* energy is zero.
C18_AveragePrice ==
    HasSummary =>
        \A a \in SummaryAverages :
            /\ IsAverageOf(a[1], a[2], a[3])
            /\ IsAverageOf(calculate_average_price(a[3], a[2]), a[2], a[3])

\* C18 witness: a printed summary with a positive average price and a market
\* without energy.
C18_Witness ==
    /\ HasSummary
    /\ \E a \in SummaryAverages : RLt(Zero, a[3]) /\ RLt(Zero, a[1])
    /\ \E a \in SummaryAverages : a[3] = Zero

-----------------------------------------------------------------------------
(* Rounding loss of the IDM step *)

\* |x| of a float
RAbs(x) == IF RLt(x, Zero) THEN RSub(Zero, x) ELSE x

-----------------------------------------------------------------------------
(* Charging-power limits *)

\* Power of a charging_schedule entry: the baseline's kW, or DAM plus IDM part
EntryKw(e) ==
    IF "source" \in DOMAIN e THEN RAdd(EntryDamKw(e), EntryIdmKw(e)) ELSE e.kw

\* C20: with valid fleet parameters, the power a vehicle is allocated in any
\* slot (DAM part plus IDM part) is 0 or lies between min_charge_kw and
\* max_charge_kw inclusive.
C20_PowerLimits ==
    validate_parameters(params) = "ok" =>
        \A i \in 1 .. Len(vehicles) :
            \A t \in DOMAIN vehicles[i].charging_schedule :
                LET kw == EntryKw(vehicles[i].charging_schedule[t])
                IN  \/ kw = Zero
                    \/ /\ RLe(vehicles[i].min_charge_kw, kw)
                       /\ RLe(kw, vehicles[i].max_charge_kw)

-----------------------------------------------------------------------------
(* Vehicles without demand *)

\* The 15-minute slots of the horizon inside [arrival_time, departure_time)
SlotsInStay(v) ==
    {t \in simulation_start .. (simulation_end - 1) :
        t >= v.arrival_time /\ t < v.departure_time}

\* A vehicle the claim is about: nothing to charge, or no slot to charge in
NothingToSchedule(v) == RLe(EnergyNeeded(v), Zero) \/ SlotsInStay(v) = {}

-----------------------------------------------------------------------------
(* Energy a vehicle receives from optimized_strategy *)

\* Power of a charging_schedule entry of optimized_strategy, both markets
EntryTotalKw(e) == RAdd(EntryDamKw(e), EntryIdmKw(e))

\* Energy the charging_schedule of optimized_strategy holds for the vehicle
DeliveredKwh(v) ==
    LET times == SortedTimes(DOMAIN v.charging_schedule)
    IN  RSum([n \in 1 .. Len(times) |->
                RMul(EntryTotalKw(v.charging_schedule[times[n]]), Quarter)])

\* The vehicle has at least ceil(energy_needed / (max_charge_kw * 0.25)) slots
\* inside its stay: that many slots at max_charge_kw cover its need
EnoughSlots(v) ==
    RLe(EnergyNeeded(v),
        RMul(R(Cardinality(SlotsInStay(v))), RMul(v.max_charge_kw, Quarter)))

-----------------------------------------------------------------------------
(* Tags of the charging_schedule entries *)

\* The DAM and IDM parts phase 3 computes in slot i for a recorded demand d
SlotDamPart(i, d) ==
    RMul(d.power_kw, RDiv(optimized[i].dam_charge_kw, optimized[i].total_charge_kw))
SlotIdmPart(i, d) ==
    RMul(d.power_kw, RDiv(optimized[i].idm_charge_kw, optimized[i].total_charge_kw))

\* The sub-market the slot's IDM power was booked on
ChosenIdmType(i) ==
    IF RLt(Zero, optimized[i].idm_15_charge_kw) THEN "15min" ELSE "60min"

\* The entry's tag and fields are those of its parts
TaggedAs(schedule, time, dam_part, idm_part, idm_type) ==
    IF ~RLt(Zero, dam_part) /\ ~RLt(Zero, idm_part)
    THEN time \notin DOMAIN schedule
    ELSE /\ time \in DOMAIN schedule
         /\ LET e == schedule[time]
            IN  /\ (e.source = "DAM") = (idm_part = Zero /\ RLt(Zero, dam_part))
                /\ (e.source = "IDM") = (dam_part = Zero /\ RLt(Zero, idm_part))
                /\ (e.source = "MIXED") = (RLt(Zero, dam_part) /\ RLt(Zero, idm_part))
                /\ e.source \in {"IDM", "MIXED"} => e.idm_type = idm_type
                /\ e.source = "DAM" => DOMAIN e = {"source", "kw"}

\* C23: once optimized_strategy has distributed a slot, the entry each vehicle
\* with demand in the slot holds for it is tagged 'DAM' iff its IDM part is 0
\* and its DAM part > 0, 'IDM' iff its DAM part is 0 and its IDM part > 0,
\* 'MIXED' iff both are > 0; 'IDM' and 'MIXED' entries carry the idm_type of
\* the sub-market chosen for the slot, and there is no entry when both are 0.
C23_EntryTags ==
    pc = "phase2" =>
        \A i \in 1 .. (idx - 1) :
            \A k \in 1 .. Len(time_slot_needs[i].vehicles) :
                LET d == time_slot_needs[i].vehicles[k]
                IN  TaggedAs(vehicles[d.vehicle].charging_schedule, optimized[i].Time,
                             SlotDamPart(i, d), SlotIdmPart(i, d), ChosenIdmType(i))

\* Every slot is distributed and the fleet holds entries of all three tags
C23_Witness ==
    /\ pc = "phase2"
    /\ idx = Len(optimized) + 1
    /\ \A tag \in {"DAM", "IDM", "MIXED"} :
          \E vi \in 1 .. Len(vehicles) :
              \E t \in DOMAIN vehicles[vi].charging_schedule :
                  vehicles[vi].charging_schedule[t].source = tag

-----------------------------------------------------------------------------
(* Slots without a price record *)

\* The 15-minute table of the running or the last returned optimized_strategy
PricedRows ==
    IF pc \in {"phase1", "phase2"} THEN {optimized[i] : i \in 1 .. Len(optimized)}
    ELSE IF HasOptimizedResults THEN OptimizedRows
    ELSE {}

\* price is that of a record of the frame nearest to time t
IsNearestPrice(prices, t, price) ==
    \E i \in 1 .. Len(prices) :
        /\ prices[i].cena = price
        /\ \A j \in 1 .. Len(prices) : Abs(prices[i].Time - t) <= Abs(prices[j].Time - t)

\* The prices of a row whose records are missing come from the fallbacks
FallbackPrices(row) ==
    LET hour == HourOf(row.Time)
    IN  /\ row.dam_price # 0 /\ row.idm_15_price # 0 /\ row.idm_60_price # 0
        /\ PricesInRange(dam_prices, hour, hour + TicksPerHour) = <<>> =>
              \/ IsNearestPrice(dam_prices, hour, row.dam_price)
              \/ row.dam_price = DefaultDamPrice
        /\ PricesInRange(idm_15_prices, row.Time, row.Time + 1) = <<>> =>
              row.idm_15_price = row.dam_price
        /\ PricesInRange(idm_60_prices, hour, hour + TicksPerHour) = <<>> =>
              row.idm_60_price = row.dam_price

\* C24: no strategy run raises over a missing price, and in the optimized
\* table a slot with no DAM record in its hour carries the price of the nearest
\* DAM record (or 50), a slot with no IDM 15-minute or 60-minute record carries
\* its own DAM price there, and no price is zero.
C24_MissingPriceFallback ==
    /\ pc # "raised"
    /\ \A row \in PricedRows : FallbackPrices(row)

-----------------------------------------------------------------------------
(* The IDM columns of the optimized table *)

\* C27: in every slot of the optimized table, while the run fills it and once
\* it is returned, at most one of idm_15_charge_kw and idm_60_charge_kw is
\* nonzero and idm_charge_kw = idm_15_charge_kw + idm_60_charge_kw.
C27_OneIdmMarketPerSlot ==
    \A row \in PricedRows :
        /\ row.idm_15_charge_kw = Zero \/ row.idm_60_charge_kw = Zero
        /\ row.idm_charge_kw = RAdd(row.idm_15_charge_kw, row.idm_60_charge_kw)

\* A returned table that books one slot on IDM-15 and another on IDM-60
C27_Witness ==
    /\ pc = "idle"
    /\ HasOptimizedResults
    /\ \E row \in OptimizedRows : RLt(Zero, row.idm_15_charge_kw)
    /\ \E row \in OptimizedRows : RLt(Zero, row.idm_60_charge_kw)


\* C28: every slot of the optimized table has
\* idm_price = min(idm_15_price, idm_60_price), and in the returned table
\* idm_cost = idm_15_cost + idm_60_cost = idm_charge_kw * idm_price / 1000 * 0.25.
C28_IdmPriceAndCost ==
    /\ \A row \in PricedRows :
          /\ row.idm_price \in {row.idm_15_price, row.idm_60_price}
          /\ row.idm_price <= row.idm_15_price /\ row.idm_price <= row.idm_60_price
    /\ HasOptimizedResults =>
          \A row \in OptimizedRows :
              /\ row.idm_cost = RAdd(row.idm_15_cost, row.idm_60_cost)
              /\ row.idm_cost =
                    RMul(RDiv(RMul(row.idm_charge_kw, R(row.idm_price)), R(KwPerMw)), Quarter)

\* A returned table with a slot that buys on the IDM while the two IDM prices
\* differ, and one where the 15-minute price is the dearer of the two
C28_Witness ==
    /\ HasOptimizedResults
    /\ \E row \in OptimizedRows :
          /\ RLt(Zero, row.idm_cost)
          /\ row.idm_15_price < row.idm_60_price
    /\ \E row \in OptimizedRows :
          /\ RLt(Zero, row.idm_cost)
          /\ row.idm_60_price < row.idm_15_price

-----------------------------------------------------------------------------
(* The table against the vehicles' schedules *)

\* The vehicles holding a charging_schedule entry for `time`
HoldersAt(time) ==
    SelectSeq([i \in 1 .. Len(vehicles) |-> i],
              LAMBDA i : time \in DOMAIN vehicles[i].charging_schedule)

\* DAM and IDM power the vehicles' entries for `time` add up to
ScheduledDamKw(time) ==
    RSum([n \in 1 .. Len(HoldersAt(time)) |->
            EntryDamKw(vehicles[HoldersAt(time)[n]].charging_schedule[time])])
ScheduledIdmKw(time) ==
    RSum([n \in 1 .. Len(HoldersAt(time)) |->
            EntryIdmKw(vehicles[HoldersAt(time)[n]].charging_schedule[time])])

\* C29: when optimized_strategy has returned, in every slot of its table the
\* DAM power of the vehicles' schedule entries adds up to dam_charge_kw, their
\* IDM power to idm_15_charge_kw + idm_60_charge_kw, and total_ev_charging is
\* the number of vehicles holding an entry for the slot.
C29_TableMatchesSchedules ==
    (pc = "idle" /\ calls # <<>> /\ LastCall = "optimized") =>
        \A row \in OptimizedRows :
            /\ ScheduledDamKw(row.Time) = row.dam_charge_kw
            /\ ScheduledIdmKw(row.Time) = RAdd(row.idm_15_charge_kw, row.idm_60_charge_kw)
            /\ row.total_ev_charging = Len(HoldersAt(row.Time))

\* optimized_strategy returned after a baseline run with a slot in which two
\* vehicles share DAM and IDM power
C29_Witness ==
    /\ pc = "idle"
    /\ calls = <<"baseline", "optimized">>
    /\ \E row \in OptimizedRows :
          /\ row.total_ev_charging = 2
          /\ RLt(Zero, row.dam_charge_kw)
          /\ RLt(Zero, row.idm_charge_kw)
          /\ RLt(Zero, ScheduledDamKw(row.Time))

-----------------------------------------------------------------------------
(* Hourly aggregation of the optimized table *)

\* The power columns whose hourly means summarize_results adds up as energy
EnergyColumns == {"dam_charge_kw", "idm_15_charge_kw", "idm_60_charge_kw"}

\* Energy of a column of the 15-minute table: slot kW times 0.25 h
SlotEnergyKwh(results, col) == RMul(ColumnSum(results, col), Quarter)

\* C30: for the 15-minute table optimized_strategy returned, whatever the
\* minute simulation_start falls on, every cost column of the hourly table
\* sums to the sum of the 15-minute column, and the energies summarize_results
\* reads off the hourly table (the sums of the hourly mean kW) equal the
\* 15-minute energies (the sums of slot kW times 0.25 h).
C30_AggregationPreservesTotals ==
    HasOptimizedResults =>
        LET hourly == aggregate_hourly_results(optimized_results)
        IN  /\ \A col \in SumColumns :
                  ColumnSum(hourly, col) = ColumnSum(optimized_results, col)
            /\ \A col \in EnergyColumns :
                  ColumnSum(hourly, col) = SlotEnergyKwh(optimized_results, col)
            /\ HasSummary =>
                  /\ summary.optimized_dam_energy =
                        SlotEnergyKwh(optimized_results, "dam_charge_kw")
                  /\ summary.optimized_total_energy =
                        SlotEnergyKwh(optimized_results, "total_charge_kw")

-----------------------------------------------------------------------------
(* Weekends in the stays initialize_fleet generates *)

\* Saturday or Sunday
IsWeekendDay(weekday) == weekday >= 5

\* initialize_fleet runs or has returned for an optimizer with workdays_only
WorkdaysOnlyFleet == fleet_call # None /\ params.workdays_only

\* C25: with workdays_only set, whatever simulation_start and simulation_days
\* are, no vehicle initialize_fleet puts into the fleet has its arrival_time
\* or its departure_time on a Saturday or a Sunday.
C25_NoWeekendStays ==
    WorkdaysOnlyFleet =>
        \A i \in 1 .. Len(vehicles) :
            /\ ~IsWeekendDay(Weekday(vehicles[i].arrival_time))
            /\ ~IsWeekendDay(Weekday(vehicles[i].departure_time))

\* C26: with workdays_only set, a PMF-sampled vehicle whose arrival day is
\* followed by a weekend day departs on a Monday, and when it arrived on a
\* Friday on the Monday three days later.
C26_WeekendDepartureOnMonday ==
    WorkdaysOnlyFleet =>
        \A i \in 1 .. Len(vehicles) :
            LET v == vehicles[i]
            IN  (v.id.block = "evening" /\ IsWeekendDay(WeekdayOfDay(DateOf(v.arrival_time) + 1))) =>
                    /\ Weekday(v.departure_time) = 0
                    /\ Weekday(v.arrival_time) = 4 =>
                          DateOf(v.departure_time) = DateOf(v.arrival_time) + 3

=============================================================================
